---- MODULE Spec2Model ----
(***************************************************************************)
(* Spatial imputation of weekly popularity schedules (src/test.py).        *)
(*                                                                         *)
(* The script loads a table of places, classifies them into sources and    *)
(* targets, pre-parses the source schedules, visits every target once,     *)
(* writes an inverse-distance weighted average of the nearest sources'     *)
(* schedules into the target's popular_times cell, and saves the table.    *)
(*                                                                         *)
(* A popular_times cell is either NaN (an empty CSV cell) or a text.  A    *)
(* text is represented by its character count and by the JSON document it  *)
(* holds: a list of day entries {"name": ..., "data": [...]}, or no        *)
(* document at all when json.loads rejects the text.                       *)
(*                                                                         *)
(* Python floats are IEEE-754 binary64; the float operators below compute  *)
(* the correctly rounded results on explicit 53-bit mantissas.             *)
(***************************************************************************)
EXTENDS Integers, Sequences, FiniteSets, TLC

\* ---- configuration (src/test.py:6-9) and shapes ----
NEIGHBORS_TO_CONSIDER == 3
Days == 7
Hours == 24
MinTextLen == 20
DistFloor == 50
days_order == <<"Monday", "Tuesday", "Wednesday", "Thursday", "Friday", "Saturday", "Sunday">>

\* ---- bounds of the model ----
NumPlaces == 3
NumOrderPlaces == 4
MaxEntries == 8
MaxSources == 4
MaxK == 4

Min(a, b) == IF a <= b THEN a ELSE b
Max(a, b) == IF a >= b THEN a ELSE b
Abs(a) == IF a >= 0 THEN a ELSE -a

\* ---- IEEE-754 binary64 arithmetic on non-negative values ----
\* A big natural is a sequence of W limbs, least significant first, base BASE.
BASE == 1048576
LimbBits == 20
W == 6
MantBits == 53

BZero == <<0, 0, 0, 0, 0, 0>>
BFromInt(n) == <<n % BASE, n \div BASE, 0, 0, 0, 0>>
BIsZero(a) == \A i \in 1..W : a[i] = 0

RECURSIVE BGeFrom(_, _, _)
BGeFrom(a, b, i) ==
    IF i = 0 THEN TRUE
    ELSE IF a[i] # b[i] THEN a[i] > b[i]
    ELSE BGeFrom(a, b, i - 1)
BGe(a, b) == BGeFrom(a, b, W)

RECURSIVE BAddC(_, _, _, _)
BAddC(a, b, i, c) ==
    IF i > W THEN <<>>
    ELSE LET s == a[i] + b[i] + c
         IN  <<s % BASE>> \o BAddC(a, b, i + 1, s \div BASE)
BAdd(a, b) == BAddC(a, b, 1, 0)

RECURSIVE BSubC(_, _, _, _)
BSubC(a, b, i, c) ==
    IF i > W THEN <<>>
    ELSE LET s == a[i] - b[i] - c
         IN  IF s < 0 THEN <<s + BASE>> \o BSubC(a, b, i + 1, 1)
                      ELSE <<s>> \o BSubC(a, b, i + 1, 0)
BSub(a, b) == BSubC(a, b, 1, 0)

RECURSIVE BMulC(_, _, _, _)
BMulC(a, s, i, c) ==
    IF i > W THEN <<>>
    ELSE LET p == a[i] * s + c
         IN  <<p % BASE>> \o BMulC(a, s, i + 1, p \div BASE)
\* s < 2^10
BMulSmall(a, s) == BMulC(a, s, 1, 0)

Limb(a, i) == IF i >= 1 /\ i <= W THEN a[i] ELSE 0
\* a * 2^n
BShl(a, n) ==
    LET q == n \div LimbBits
        r == n % LimbBits
        l(i) == ((Limb(a, i - q) % (2 ^ (LimbBits - r))) * (2 ^ r))
                + (Limb(a, i - q - 1) \div (2 ^ (LimbBits - r)))
    IN  <<l(1), l(2), l(3), l(4), l(5), l(6)>>
\* floor(a / 2^n)
BShr(a, n) ==
    LET q == n \div LimbBits
        r == n % LimbBits
        l(i) == (Limb(a, i + q) \div (2 ^ r))
                + ((Limb(a, i + q + 1) % (2 ^ r)) * (2 ^ (LimbBits - r)))
    IN  <<l(1), l(2), l(3), l(4), l(5), l(6)>>

RECURSIVE IntBitLen(_)
IntBitLen(n) == IF n = 0 THEN 0 ELSE 1 + IntBitLen(n \div 2)
RECURSIVE BBitLenFrom(_, _)
BBitLenFrom(a, i) ==
    IF i = 0 THEN 0
    ELSE IF a[i] # 0 THEN (i - 1) * LimbBits + IntBitLen(a[i])
    ELSE BBitLenFrom(a, i - 1)
BBitLen(a) == BBitLenFrom(a, W)
\* bit n (0 = least significant) of a
BBit(a, n) == (Limb(a, (n \div LimbBits) + 1) \div (2 ^ (n % LimbBits))) % 2
\* a mod 2^n # 0
BLowNonZero(a, n) == ~BIsZero(BSub(a, BShl(BShr(a, n), n)))

\* A float is [m, e] with value m * 2^e, m = 0 or 2^52 <= m < 2^53.
FZero == [m |-> BZero, e |-> 0]
\* round m * 2^e (plus a non-zero tail below when sticky) to nearest, ties to even
FRound(m, e, sticky) ==
    IF BIsZero(m) THEN FZero
    ELSE LET L == BBitLen(m)
         IN  IF L <= MantBits
             THEN [m |-> BShl(m, MantBits - L), e |-> e - (MantBits - L)]
             ELSE LET s == L - MantBits
                      q == BShr(m, s)
                      guard == BBit(m, s - 1) = 1
                      rest == sticky \/ BLowNonZero(m, s - 1)
                      up == guard /\ (rest \/ q[1] % 2 = 1)
                      q1 == IF up THEN BAdd(q, BFromInt(1)) ELSE q
                  IN  IF BBitLen(q1) > MantBits
                      THEN [m |-> BShr(q1, 1), e |-> e + s + 1]
                      ELSE [m |-> q1, e |-> e + s]

\* an integer 0 <= n < 2^31 as a float (exact)
FFromInt(n) == FRound(BFromInt(n), 0, FALSE)
FGt0(f) == ~BIsZero(f.m)
\* float product of integer-valued n (0 <= n < 2^10) and f
FMulInt(n, f) == FRound(BMulSmall(f.m, n), f.e, FALSE)

MaxAlign == 64
FAdd(f, g) ==
    IF BIsZero(f.m) THEN g
    ELSE IF BIsZero(g.m) THEN f
    ELSE LET hi == IF f.e >= g.e THEN f ELSE g
             lo == IF f.e >= g.e THEN g ELSE f
             d == hi.e - lo.e
         IN  IF d >= MaxAlign THEN hi
             ELSE FRound(BAdd(BShl(hi.m, d), lo.m), lo.e, FALSE)

QuotBits == 55
\* Long division on mantissas split in two halves of HalfBits bits:
\* s = <<q_hi, q_lo, r_hi, r_lo>>, divisor d_hi, d_lo.
HalfBits == 27
HALF == 134217728
MHi(a) == a[3] * 8192 + (a[2] \div 128)
MLo(a) == (a[2] % 128) * BASE + a[1]
\* the next quotient bit is 1: subtract the divisor, shift
DivTake(s, dh, dl) ==
    LET lo == s[4] - dl
        hi == s[3] - dh - (IF lo < 0 THEN 1 ELSE 0)
        rl == 2 * (IF lo < 0 THEN lo + HALF ELSE lo)
        ql == 2 * s[2] + 1
    IN  <<2 * s[1] + (ql \div HALF), ql % HALF, 2 * hi + (rl \div HALF), rl % HALF>>
\* the next quotient bit is 0: shift
DivSkip(s) ==
    <<2 * s[1] + ((2 * s[2]) \div HALF), (2 * s[2]) % HALF,
      2 * s[3] + ((2 * s[4]) \div HALF), (2 * s[4]) % HALF>>
RECURSIVE DivLoop(_, _, _, _)
\* n more quotient bits
DivLoop(s, dh, dl, n) ==
    IF n = 0 THEN s
    ELSE IF s[3] > dh \/ (s[3] = dh /\ s[4] >= dl)
    THEN DivLoop(DivTake(s, dh, dl), dh, dl, n - 1)
    ELSE DivLoop(DivSkip(s), dh, dl, n - 1)
\* f / g, g > 0
FDiv(f, g) ==
    IF BIsZero(f.m) THEN FZero
    ELSE LET qr == DivLoop(<<0, 0, MHi(f.m), MLo(f.m)>>, MHi(g.m), MLo(g.m), QuotBits + 1)
             q == <<qr[2] % BASE, (qr[2] \div BASE) + (qr[1] % 8192) * 128, qr[1] \div 8192, 0, 0, 0>>
         IN  FRound(q, f.e - g.e - QuotBits, qr[3] # 0 \/ qr[4] # 0)

\* truncation toward zero of a float below 2^31 to an integer
FTrunc(f) ==
    IF f.e >= 0 THEN LET b == BShl(f.m, f.e) IN b[1] + b[2] * BASE
    ELSE IF -f.e >= 2 * MantBits THEN 0
    ELSE LET b == BShr(f.m, -f.e) IN b[1] + b[2] * BASE

\* ---- popular_times cells ----
\* an empty CSV cell, read by pandas as NaN
NaN == [kind |-> "nan", wf |-> FALSE, len |-> 0, doc |-> <<>>]
\* a text of n characters that json.loads rejects
BadText(n) == [kind |-> "text", wf |-> FALSE, len |-> n, doc |-> <<>>]

RECURSIVE Digits(_)
Digits(n) == IF n < 10 THEN 1 ELSE 1 + Digits(n \div 10)
RECURSIVE SumDigits(_, _)
SumDigits(data, i) == IF i = 0 THEN 0 ELSE Digits(data[i]) + SumDigits(data, i - 1)
\* characters of "[v1, v2, ...]"
IntListLen(data) == 2 + SumDigits(data, Len(data)) + 2 * Max(Len(data) - 1, 0)
\* characters of {"name": "<name>", "data": [...]}
EntryLen(e) == 22 + Len(e.name) + IntListLen(e.data)
RECURSIVE SumEntries(_, _)
SumEntries(doc, i) == IF i = 0 THEN 0 ELSE EntryLen(doc[i]) + SumEntries(doc, i - 1)
\* characters of json.dumps(doc) for a list of day entries
DumpsLen(doc) == 2 + SumEntries(doc, Len(doc)) + 2 * Max(Len(doc) - 1, 0)
\* json.dumps(doc): the text that holds the document
JsonText(doc) == [kind |-> "text", wf |-> TRUE, len |-> DumpsLen(doc), doc |-> doc]

\* ---- list.sort / sorted: stable, on <<key, item>> pairs ----
RECURSIVE InsertUnstable(_, _)
\* an insertion that lets a later item overtake the items of equal key
InsertUnstable(s, p) ==
    IF Len(s) = 0 THEN <<p>>
    ELSE IF s[Len(s)][1] < p[1] THEN Append(s, p)
    ELSE Append(InsertUnstable(SubSeq(s, 1, Len(s) - 1), p), s[Len(s)])
RECURSIVE Insert(_, _)
Insert(s, p) ==
    IF Len(s) = 0 THEN <<p>>
    ELSE IF s[Len(s)][1] <= p[1] THEN Append(s, p)
    ELSE Append(Insert(SubSeq(s, 1, Len(s) - 1), p), s[Len(s)])
RECURSIVE StableSort(_)
StableSort(s) ==
    IF Len(s) = 0 THEN <<>>
    ELSE Insert(StableSort(SubSeq(s, 1, Len(s) - 1)), s[Len(s)])

\* ---- schedule codec ----
None == <<>>
\* days_order.index(name) if name in days_order else 0
DayKey(name) ==
    IF \E i \in 1..Len(days_order) : days_order[i] = name
    THEN (CHOOSE i \in 1..Len(days_order) : days_order[i] = name) - 1
    ELSE 0
\* the matrix of the day entries' data rows, Monday first; None when the cell
\* is NaN (json.loads raises TypeError), is not JSON, is empty or has fewer
\* than seven entries.  The rows of a document have one common length.
parse_schedule(json_str) ==
    IF json_str.kind = "nan" \/ ~json_str.wf THEN None
    ELSE LET data == json_str.doc
         IN  IF Len(data) = 0 \/ Len(data) < Days THEN None
             ELSE LET sorted_data ==
                          StableSort([i \in 1..Len(data) |-> <<DayKey(data[i].name), data[i]>>])
                  IN  [i \in 1..Len(data) |-> sorted_data[i][2].data]
\* the rows paired with the day names counted from Sunday backwards
format_schedule_reversed(numpy_matrix) ==
    JsonText([i \in 1..Len(days_order) |->
                 [name |-> days_order[Len(days_order) + 1 - i], data |-> numpy_matrix[i]]])
\* rows 0..6 of the matrix under the seven day names, dumped as JSON
format_schedule_back_to_json(numpy_matrix) ==
    JsonText([i \in 1..Len(days_order) |-> [name |-> days_order[i], data |-> numpy_matrix[i]]])

\* ---- distance, neighbour selection, weighting, aggregation ----
\* Great-circle distance in whole metres.  Coordinates are in units of 1e-4
\* degree and the places lie on one great circle (the equator, or a common
\* meridian), where the haversine formula reduces to R * |angle| with
\* R * pi / 180 = 111195 metres per degree.
haversine(lat1, lon1, lat2, lon2) ==
    ((Abs(lat2 - lat1) + Abs(lon2 - lon1)) * 111195) \div 10000
\* (s_idx, dist) for every source, in the order of the source frame
Distances(t_lat, t_lon, srcs) ==
    [j \in 1..Len(srcs) |->
        <<srcs[j].idx, haversine(t_lat, t_lon, srcs[j].latitude, srcs[j].longitude)>>]
\* distances.sort(key=lambda x: x[1]); distances[:k]
SelectNearest(t_lat, t_lon, srcs, k) ==
    LET distances == Distances(t_lat, t_lon, srcs)
        sorted == StableSort([j \in 1..Len(distances) |-> <<distances[j][2], distances[j]>>])
    IN  [j \in 1..Min(k, Len(sorted)) |-> sorted[j][2]]
\* 1 / (max(dist, 50) ** 2)
Weight(dist) == FDiv(FFromInt(1), FFromInt(Max(dist, DistFloor) * Max(dist, DistFloor)))
\* numpy broadcasting of sched into the (7, 24) accumulator
Broadcastable(sched) == Len(sched) = Days /\ Len(sched[1]) \in {1, Hours}
CellOf(sched, r, c) == IF Len(sched[r]) = 1 THEN sched[r][1] ELSE sched[r][c]
RECURSIVE Weights(_, _)
\* the weights of the neighbours used[j..], in loop order
Weights(used, j) ==
    IF j > Len(used) THEN <<>> ELSE <<Weight(used[j][2])>> \o Weights(used, j + 1)
RECURSIVE TotalWeight(_, _, _)
\* total_weight += weight
TotalWeight(ws, j, acc) ==
    IF j > Len(ws) THEN acc ELSE TotalWeight(ws, j + 1, FAdd(acc, ws[j]))
RECURSIVE WeightedSum(_, _, _, _)
\* one cell of weighted_sum += sched * weight
WeightedSum(vals, ws, j, acc) ==
    IF j > Len(ws) THEN acc
    ELSE WeightedSum(vals, ws, j + 1, FAdd(acc, FMulInt(vals[j], ws[j])))
\* one cell of (weighted_sum / total_weight).astype(int)
CellAverage(vals, ws, total_weight) ==
    FTrunc(FDiv(WeightedSum(vals, ws, 1, FZero), total_weight))
\* The body of the loop over the targets up to the write-back: the outcome
\* for one target row.  The element-wise array operations are evaluated once
\* for every distinct combination of neighbour values.
ImputeTarget(target, srcs, schedules) ==
    LET nearest_k == SelectNearest(target.latitude, target.longitude, srcs, NEIGHBORS_TO_CONSIDER)
        used == SelectSeq(nearest_k, LAMBDA x : x[1] \in DOMAIN schedules)
        ws == Weights(used, 1)
        total_weight == TotalWeight(ws, 1, FZero)
        vals(r, c) == [j \in 1..Len(used) |-> CellOf(schedules[used[j][1]], r, c)]
        table == {<<v, CellAverage(v, ws, total_weight)>> :
                      v \in {vals(r, c) : r \in 1..Days, c \in 1..Hours}}
        final_matrix == [r \in 1..Days |-> [c \in 1..Hours |->
                            (CHOOSE p \in table : p[1] = vals(r, c))[2]]]
    IN  IF \E j \in 1..Len(used) : ~Broadcastable(schedules[used[j][1]])
        THEN [outcome |-> "ValueError", json |-> NaN]
        ELSE IF ~FGt0(total_weight)
        THEN [outcome |-> "skipped", json |-> NaN]
        ELSE [outcome |-> "imputed", json |-> format_schedule_back_to_json(final_matrix)]

\* ---- inputs ----
\* longitudes of the places of a run: co-located, or 100 m apart
Lons == {0, 9}
\* the longitudes of n places, the first at the origin (distances depend on
\* differences alone)
PlaceLons(n) == {l \in [1..n -> Lons] : l[1] = 0}
\* n places all at the origin, or alternately 100 m apart
OrderLons(n) == {[i \in 1..n |-> 0], [i \in 1..n |-> IF i % 2 = 0 THEN 9 ELSE 0]}
\* longitudes for neighbour selection alone: 0 m, 44 m and 100 m from 0
SelectLons == {0, 4, 9}
DayData(cols, v, d) == [h \in 1..cols |-> (v + d * h) % 101]
\* n day entries in calendar order, every cell v
WeekDoc(n, cols, v) ==
    [i \in 1..n |-> [name |-> days_order[((i - 1) % Days) + 1], data |-> DayData(cols, v, 0)]]
\* the cells a place of a run can hold: empty, "[]", six, seven or eight entries
RunInputs ==
    {NaN, JsonText(<<>>), JsonText(WeekDoc(6, Hours, 49)), JsonText(WeekDoc(7, Hours, 49)),
     JsonText(WeekDoc(7, Hours, 20)), JsonText(WeekDoc(8, Hours, 49))}
\* n day entries starting at any weekday, forwards or backwards, optionally
\* with an unknown day name in second place; every day has its own values
CodecDoc(rot, rev, hol, n, cols) ==
    [i \in 1..n |->
        LET j == ((rot + (IF rev THEN n - i ELSE i - 1)) % Days) + 1
        IN  [name |-> IF hol /\ i = 2 THEN "Holiday" ELSE days_order[j],
             data |-> DayData(cols, 10 * j, 1)]]
CodecInputs ==
    {NaN, BadText(4), BadText(30)} \cup
    {JsonText(CodecDoc(rot, rev, hol, n, cols)) :
        rot \in 0..(Days - 1), rev \in BOOLEAN, hol \in BOOLEAN,
        n \in 0..MaxEntries, cols \in {Hours - 1, Hours}}

\* ---- state ----
VARIABLES
    csv,               \* places_database.csv: the rows on disk
    df,                \* the data frame
    has_data,          \* the has_data column, <<>> while the frame has none
    sources,           \* copy of the rows with has_data
    targets,           \* copy of the rows without
    source_schedules,  \* the pre-parsed schedules, by row index
    visited,           \* positions of the targets the loop has been through
    count,             \* targets filled
    stdout,            \* the numbers printed
    pc,
    json_str, matrix, encoded, redecoded,      \* codec round trip
    t_lon, src_lons, k_neighbors, nearest      \* neighbour selection

run_vars == <<csv, df, has_data, sources, targets, source_schedules, visited, count, stdout>>
codec_vars == <<json_str, matrix, encoded, redecoded>>
select_vars == <<t_lon, src_lons, k_neighbors, nearest>>
vars == <<run_vars, codec_vars, select_vars, pc>>

RunIdle ==
    /\ csv = <<>> /\ df = <<>> /\ has_data = <<>> /\ sources = <<>> /\ targets = <<>>
    /\ source_schedules = <<>> /\ visited = {} /\ count = 0 /\ stdout = <<>>
CodecIdle == json_str = NaN /\ matrix = None /\ encoded = NaN /\ redecoded = None
SelectIdle == t_lon = 0 /\ src_lons = <<>> /\ k_neighbors = 0 /\ nearest = <<>>

\* ---- the run (src/test.py:61-142) ----
\* after pd.read_csv: the frame holds the rows of the file
Init ==
    /\ \E lons \in PlaceLons(NumPlaces), cells \in [1..NumPlaces -> RunInputs] :
           csv = [i \in 1..NumPlaces |->
                    [name |-> i, latitude |-> 0, longitude |-> lons[i], popular_times |-> cells[i]]]
    /\ df = csv
    /\ has_data = <<>> /\ sources = <<>> /\ targets = <<>> /\ source_schedules = <<>>
    /\ visited = {} /\ count = 0
    /\ stdout = <<[tag |-> "total", n |-> NumPlaces]>>
    /\ pc = "classify"
    /\ CodecIdle /\ SelectIdle

\* len(str(x)) > 20 if pd.notna(x) else False
HasData(x) == IF x.kind # "nan" THEN x.len > MinTextLen ELSE FALSE
\* frame[mask].copy(): the rows where the mask is b, with their index
CopyRows(frame, mask, b) ==
    LET keep == SelectSeq([i \in 1..Len(frame) |-> i], LAMBDA i : mask[i] = b)
    IN  [j \in 1..Len(keep) |->
            [idx |-> keep[j], latitude |-> frame[keep[j]].latitude,
             longitude |-> frame[keep[j]].longitude,
             popular_times |-> frame[keep[j]].popular_times]]

Classify ==
    /\ pc = "classify"
    /\ has_data' = [i \in 1..Len(df) |-> HasData(df[i].popular_times)]
    /\ sources' = CopyRows(df, has_data', TRUE)
    /\ targets' = CopyRows(df, has_data', FALSE)
    /\ stdout' = stdout \o <<[tag |-> "sources", n |-> Len(sources')],
                              [tag |-> "targets", n |-> Len(targets')]>>
    /\ pc' = "check"
    /\ UNCHANGED <<csv, df, source_schedules, visited, count, codec_vars, select_vars>>

\* a check that never finds the sources empty
NoSourceDataNever(srcs) == Len(srcs) < 0
\* if len(sources) == 0
NoSourceData(srcs) == Len(srcs) = 0
\* no source: the error is printed and exit() ends the run
NoSources ==
    /\ pc = "check"
    /\ NoSourceData(sources)
    /\ stdout' = Append(stdout, [tag |-> "error", n |-> 0])
    /\ pc' = "exited"
    /\ UNCHANGED <<csv, df, has_data, sources, targets, source_schedules, visited, count,
                   codec_vars, select_vars>>

\* source_schedules[idx] = sched for every source whose cell parses
PreParse ==
    /\ pc = "check"
    /\ ~NoSourceData(sources)
    /\ source_schedules' =
           LET parsed == {j \in 1..Len(sources) : parse_schedule(sources[j].popular_times) # None}
           IN  [idx \in {sources[j].idx : j \in parsed} |->
                   parse_schedule(sources[CHOOSE j \in parsed : sources[j].idx = idx].popular_times)]
    /\ count' = 0
    /\ pc' = "loop"
    /\ UNCHANGED <<csv, df, has_data, sources, targets, visited, stdout, codec_vars, select_vars>>

\* a positional write with the label: one row too far
WriteBackNextRow(frame, idx, final_json) ==
    [frame EXCEPT ![(idx % Len(frame)) + 1].popular_times = final_json]
\* df.at[idx, 'popular_times'] = final_json
WriteBack(frame, idx, final_json) == [frame EXCEPT ![idx].popular_times = final_json]
\* one pass of the loop body for the target at position p, reading the
\* source rows srcs and the schedules
VisitWith(p, srcs, schedules) ==
    /\ pc = "loop"
    /\ p \in (1..Len(targets)) \ visited
    /\ LET target == targets[p]
           res == ImputeTarget(target, srcs, schedules)
       IN  IF res.outcome = "ValueError"
           THEN /\ pc' = "aborted"
                /\ UNCHANGED <<df, count, visited, stdout>>
           ELSE /\ pc' = pc
                /\ visited' = visited \cup {p}
                /\ IF res.outcome = "imputed"
                   THEN /\ df' = WriteBack(df, target.idx, res.json)
                        /\ count' = count + 1
                        /\ stdout' = IF count' % 10 = 0
                                      THEN Append(stdout, [tag |-> "progress", n |-> count'])
                                      ELSE stdout
                   ELSE UNCHANGED <<df, count, stdout>>
    /\ UNCHANGED <<csv, has_data, sources, targets, source_schedules, codec_vars, select_vars>>
\* the loop body reading the frame as it is now: every other row that has
\* data by now is a source, parsed on the spot
VisitAtLive(p) ==
    LET live == CopyRows(df, [i \in 1..Len(df) |->
                                 i # targets[p].idx /\ HasData(df[i].popular_times)], TRUE)
        parsed == {j \in 1..Len(live) : parse_schedule(live[j].popular_times) # None}
    IN  VisitWith(p, live,
                  [idx \in {live[j].idx : j \in parsed} |-> parse_schedule(df[idx].popular_times)])
\* the loop body reads the copy of the source rows and the pre-parsed schedules
VisitAt(p) == VisitWith(p, sources, source_schedules)

\* targets.iterrows(): the next target in frame order
Visit ==
    /\ pc = "loop"
    /\ visited # 1..Len(targets)
    /\ VisitAt(CHOOSE p \in (1..Len(targets)) \ visited :
                   \A q \in (1..Len(targets)) \ visited : p <= q)

\* drop has_data, write the frame over the file, report
Save ==
    /\ pc = "loop"
    /\ visited = 1..Len(targets)
    /\ has_data' = <<>>
    /\ csv' = df
    /\ stdout' = Append(stdout, [tag |-> "filled", n |-> count])
    /\ pc' = "done"
    /\ UNCHANGED <<df, sources, targets, source_schedules, visited, count, codec_vars, select_vars>>

Next == Classify \/ NoSources \/ PreParse \/ Visit \/ Save
Spec == Init /\ [][Next]_vars

\* ---- the run with the targets taken in any order ----
\* places that are empty or hold a full week, one more than in Init
InitOrder ==
    /\ \E lons \in OrderLons(NumOrderPlaces),
          cells \in [1..NumOrderPlaces ->
                        {NaN, JsonText(WeekDoc(7, Hours, 49)), JsonText(WeekDoc(7, Hours, 20))}] :
           csv = [i \in 1..NumOrderPlaces |->
                    [name |-> i, latitude |-> 0, longitude |-> lons[i], popular_times |-> cells[i]]]
    /\ df = csv
    /\ has_data = <<>> /\ sources = <<>> /\ targets = <<>> /\ source_schedules = <<>>
    /\ visited = {} /\ count = 0
    /\ stdout = <<[tag |-> "total", n |-> NumOrderPlaces]>>
    /\ pc = "classify"
    /\ CodecIdle /\ SelectIdle
VisitAny == \E p \in 1..Len(targets) : VisitAt(p)
NextAnyOrder == Classify \/ NoSources \/ PreParse \/ VisitAny \/ Save
SpecAnyOrder == InitOrder /\ [][NextAnyOrder]_vars

\* ---- the codec alone: decode, encode, decode ----
CodecInit ==
    /\ json_str \in CodecInputs
    /\ matrix = None /\ encoded = NaN /\ redecoded = None
    /\ pc = "decode"
    /\ RunIdle /\ SelectIdle
Decode ==
    /\ pc = "decode"
    /\ matrix' = parse_schedule(json_str)
    /\ pc' = IF matrix' = None THEN "no_data" ELSE "encode"
    /\ UNCHANGED <<json_str, encoded, redecoded, run_vars, select_vars>>
Encode ==
    /\ pc = "encode"
    /\ encoded' = format_schedule_back_to_json(matrix)
    /\ pc' = "redecode"
    /\ UNCHANGED <<json_str, matrix, redecoded, run_vars, select_vars>>
Redecode ==
    /\ pc = "redecode"
    /\ redecoded' = parse_schedule(encoded)
    /\ pc' = "round_trip"
    /\ UNCHANGED <<json_str, matrix, encoded, run_vars, select_vars>>
CodecNext == Decode \/ Encode \/ Redecode
SpecCodec == CodecInit /\ [][CodecNext]_vars

\* ---- neighbour selection alone ----
SeqsUpTo(S, n) == UNION {[1..m -> S] : m \in 0..n}
\* source rows at the given longitudes, indexed by position
RowsAt(lons) ==
    [j \in 1..Len(lons) |-> [idx |-> j, latitude |-> 0, longitude |-> lons[j], popular_times |-> NaN]]
SelectInit ==
    /\ t_lon \in SelectLons
    /\ src_lons \in SeqsUpTo(SelectLons, MaxSources)
    /\ k_neighbors \in 1..MaxK
    /\ nearest = <<>>
    /\ pc = "select"
    /\ RunIdle /\ CodecIdle
Select ==
    /\ pc = "select"
    /\ nearest' = SelectNearest(0, t_lon, RowsAt(src_lons), k_neighbors)
    /\ pc' = "selected"
    /\ UNCHANGED <<t_lon, src_lons, k_neighbors, run_vars, codec_vars>>
SelectNext == Select
SpecSelect == SelectInit /\ [][SelectNext]_vars

\* ---- properties ----
IsSource(i) == \E j \in 1..Len(sources) : sources[j].idx = i
IsTarget(i) == \E j \in 1..Len(targets) : targets[j].idx = i
Printed(tag) == \E j \in 1..Len(stdout) : stdout[j].tag = tag
\* the neighbours of the target at position p that have a pre-parsed schedule
UsedNeighbours(p) ==
    SelectSeq(SelectNearest(targets[p].latitude, targets[p].longitude, sources, NEIGHBORS_TO_CONSIDER),
              LAMBDA x : x[1] \in DOMAIN source_schedules)
IsWeek(m) == Len(m) = Days /\ \A r \in 1..Days : Len(m[r]) = Hours

\* C1: once the places are classified, every source holds a cell that
\* parse_schedule decodes and every target holds one that it does not.
C1_SourcesIffDecodable ==
    pc # "classify" =>
        /\ \A j \in 1..Len(sources) : parse_schedule(sources[j].popular_times) # None
        /\ \A j \in 1..Len(targets) : parse_schedule(targets[j].popular_times) = None

\* C2: parse_schedule returns None for every cell that is empty, is not
\* JSON or does not hold exactly seven day entries, so every matrix it
\* returns has seven rows.
C2_ExactlySevenOrNoData ==
    pc # "decode" =>
        /\ (json_str.kind = "nan" \/ ~json_str.wf \/ Len(json_str.doc) # Days) => matrix = None
        /\ matrix # None => Len(matrix) = Days

\* C3: while the file still holds the rows as loaded, every row of the frame
\* has its name, latitude and longitude as loaded and every source row its
\* popular_times as loaded; and no step changes a name, a latitude, a
\* longitude, or the popular_times of a row that is not a target.
C3_AsLoaded ==
    pc \in {"check", "loop", "aborted", "exited"} =>
        /\ Len(df) = Len(csv)
        /\ \A i \in 1..Len(df) :
              /\ df[i].name = csv[i].name
              /\ df[i].latitude = csv[i].latitude
              /\ df[i].longitude = csv[i].longitude
              /\ IsSource(i) => df[i].popular_times = csv[i].popular_times
C3_Frame ==
    /\ Len(df') = Len(df)
    /\ \A i \in 1..Len(df) :
          /\ df'[i].name = df[i].name
          /\ df'[i].latitude = df[i].latitude
          /\ df'[i].longitude = df[i].longitude
          /\ df'[i].popular_times # df[i].popular_times => IsTarget(i)
C3_OnlyTargetSchedulesWritten == [](C3_AsLoaded) /\ [][C3_Frame]_vars
\* a target has been filled next to a source
C3_Witness ==
    /\ pc = "loop"
    /\ Len(sources) > 0
    /\ \E i \in 1..Len(df) : IsTarget(i) /\ df[i].popular_times # csv[i].popular_times

\* C4: at the end of the run the targets still holding their cell as loaded
\* are the skipped ones: count plus their number is the number of targets,
\* and when a target was skipped that number has been reported.
C4_SkippedCountedAndReported ==
    pc = "done" =>
        LET skipped == {p \in 1..Len(targets) :
                           df[targets[p].idx].popular_times = targets[p].popular_times}
        IN  /\ count + Cardinality(skipped) = Len(targets)
            /\ skipped # {} =>
                   \E j \in 1..Len(stdout) :
                       stdout[j].tag = "skipped" /\ stdout[j].n = Cardinality(skipped)

\* C5: with at least one source the run never aborts inside the loop over
\* the targets.
C5_LoopNeverAborts == Len(sources) > 0 => pc # "aborted"

\* C6: when classification leaves no source, the run prints the error and
\* stops: it never enters the loop, no row is modified, count stays 0, no
\* target is visited and the file is not written.
C6_NoSourcesStops ==
    (pc # "classify" /\ Len(sources) = 0) =>
        /\ pc \in {"check", "exited"}
        /\ pc = "exited" => (Printed("error") /\ stdout[Len(stdout)].tag = "error")
        /\ ~Printed("filled")
        /\ df = csv
        /\ count = 0
        /\ visited = {}
C6_Witness == pc = "exited" /\ Len(targets) = NumPlaces /\ Printed("error")

\* C7: selection returns min(k, n) distinct sources with their distances,
\* in non-decreasing distance, equal distances in source order; no source
\* left out is nearer than a selected one, or as near as a selected one
\* and earlier in source order; with k >= n every source is returned.
C7_NearestFirstStable ==
    pc = "selected" =>
        LET n == Len(src_lons)
            dist(j) == haversine(0, t_lon, 0, src_lons[j])
            m == Len(nearest)
            sel == {nearest[i][1] : i \in 1..m}
        IN  /\ m = Min(k_neighbors, n)
            /\ \A i \in 1..m : nearest[i][1] \in 1..n /\ nearest[i][2] = dist(nearest[i][1])
            /\ \A i, j \in 1..m :
                  i < j => /\ nearest[i][1] # nearest[j][1]
                           /\ nearest[i][2] <= nearest[j][2]
                           /\ nearest[i][2] = nearest[j][2] => nearest[i][1] < nearest[j][1]
            /\ \A u \in (1..n) \ sel : \A i \in 1..m :
                  /\ dist(u) >= nearest[i][2]
                  /\ dist(u) = nearest[i][2] => u > nearest[i][1]
            /\ k_neighbors >= n => sel = 1..n
\* the cut at k falls between two sources at the same distance
C7_Witness ==
    /\ pc = "selected"
    /\ Len(nearest) = k_neighbors
    /\ k_neighbors < Len(src_lons)
    /\ \E u \in 1..Len(src_lons) :
          /\ \A i \in 1..Len(nearest) : nearest[i][1] # u
          /\ haversine(0, t_lon, 0, src_lons[u]) = nearest[Len(nearest)][2]

\* C8: a visited target whose neighbours with a schedule all hold the same
\* 7x24 schedule M holds M itself afterwards.
C8_IdenticalNeighboursReproduced ==
    \A p \in visited :
        LET used == UsedNeighbours(p)
        IN  (/\ Len(used) > 0
             /\ IsWeek(source_schedules[used[1][1]])
             /\ \A j \in 1..Len(used) :
                   source_schedules[used[j][1]] = source_schedules[used[1][1]])
            => parse_schedule(df[targets[p].idx].popular_times) = source_schedules[used[1][1]]

\* C9: a cell of seven day entries of 24 values, in any order, decodes to
\* a matrix that encoding and decoding again give back unchanged.
SevenDaysOfHours(x) ==
    /\ x.kind = "text" /\ x.wf
    /\ Len(x.doc) = Days
    /\ \A i \in 1..Len(x.doc) : Len(x.doc[i].data) = Hours
C9_RoundTrip ==
    SevenDaysOfHours(json_str) =>
        /\ pc # "no_data"
        /\ pc = "round_trip" => (matrix # None /\ redecoded = matrix)
\* the round trip of a week that does not start on Monday
C9_Witness ==
    /\ pc = "round_trip"
    /\ SevenDaysOfHours(json_str)
    /\ json_str.doc[1].name # "Monday"
    /\ encoded.doc[1].name = "Monday"
    /\ matrix[1] # json_str.doc[1].data

\* C10: in whatever order the targets are taken, the run ends as the rows
\* on file alone decide: every target holds what ImputeTarget yields for it
\* from the sources as loaded, count is the number of targets filled, and
\* the run aborts only if some target's sources as loaded make it abort.
LoadedMask == [i \in 1..Len(csv) |-> HasData(csv[i].popular_times)]
LoadedSources == CopyRows(csv, LoadedMask, TRUE)
LoadedTargets == CopyRows(csv, LoadedMask, FALSE)
LoadedSchedules ==
    LET parsed == {j \in 1..Len(LoadedSources) :
                      parse_schedule(LoadedSources[j].popular_times) # None}
    IN  [idx \in {LoadedSources[j].idx : j \in parsed} |-> parse_schedule(csv[idx].popular_times)]
RECURSIVE Outcomes(_)
\* what the loop body yields for the targets p.., from the sources as loaded
Outcomes(p) ==
    IF p > Len(targets) THEN <<>>
    ELSE <<ImputeTarget(targets[p], sources, source_schedules)>> \o Outcomes(p + 1)
C10_OrderIndependent ==
    pc \in {"loop", "aborted"} =>
        /\ sources = LoadedSources
        /\ targets = LoadedTargets
        /\ source_schedules = LoadedSchedules
        /\ (pc = "aborted" \/ visited = 1..Len(targets)) =>
              LET outs == Outcomes(1)
                  filled == {p \in 1..Len(targets) : outs[p].outcome = "imputed"}
              IN  /\ pc = "aborted" <=> \E p \in 1..Len(targets) : outs[p].outcome = "ValueError"
                  /\ pc = "loop" =>
                        /\ \A p \in 1..Len(targets) :
                              df[targets[p].idx].popular_times =
                                  IF p \in filled THEN outs[p].json
                                  ELSE csv[targets[p].idx].popular_times
                        /\ \A i \in 1..Len(df) : ~IsTarget(i) => df[i] = csv[i]
                        /\ count = Cardinality(filled)
\* the second target has been filled before the first, from two different schedules
C10_Witness ==
    /\ pc = "loop"
    /\ 2 \in visited /\ 1 \notin visited
    /\ df[targets[2].idx].popular_times # csv[targets[2].idx].popular_times
    /\ \E i, j \in DOMAIN source_schedules : source_schedules[i] # source_schedules[j]

====
